---- MODULE Spec2Model ----
(***************************************************************************)
(* ProbabilitySpace<T> (src/probability_space.h) together with the calls   *)
(* the harness makes on it (src/test_probability_space.cpp).               *)
(*                                                                         *)
(* Numbers.  A C++ double is modelled as a record [nan, num, den] that     *)
(* denotes the quotient num/den, or NaN.  Masses and sums of masses have   *)
(* den = ONE, so num counts units of 1e-9: 1.0 is ONE units and EPSILON    *)
(* (1e-9) is one unit.  Addition and subtraction are exact on that grid;   *)
(* the rounding of IEEE addition (about 1e-16) is not modelled, and no     *)
(* property below is stated more sharply than such rounding allows; a sum  *)
(* lying exactly on the tolerance (1 +- 1e-9) is compared as a real.  The  *)
(* only division of the program (P(A n B) / P(B)) yields the quotient of   *)
(* the two unit counts.  Every operation involving NaN yields NaN and      *)
(* every ordered comparison involving NaN is false, as in IEEE 754.        *)
(***************************************************************************)
EXTENDS Integers, FiniteSets, Sequences, TLC

(* ------------------------------ bounds -------------------------------- *)

\* Outcomes are the integers 1 .. NumOutcomes (T = int, as for the die).
NumOutcomes == 3

\* Mass functions handed to the constructor carry at most ONE + MaxExcess
\* units of positive mass in total.
MaxExcess == 2

(* -------------------------- program constants ------------------------- *)

\* constexpr double EPSILON = 1e-9, in units of 1e-9.
EPSILON == 1

\* The literal 1.0, in units of 1e-9.
ONE == 1000000000

HALF == ONE \div 2

(* ------------------------------ doubles ------------------------------- *)

Dbl(n) == [nan |-> FALSE, num |-> n, den |-> ONE]

NaN == [nan |-> TRUE, num |-> 0, den |-> ONE]

Zero == Dbl(0)

\* a + b on two sums of masses
Add(a, b) == IF a.nan \/ b.nan THEN NaN ELSE Dbl(a.num + b.num)

\* a - b on two sums of masses
Sub(a, b) == IF a.nan \/ b.nan THEN NaN ELSE Dbl(a.num - b.num)

\* a / b on two sums of masses, b != 0
Div(a, b) ==
    IF a.nan \/ b.nan THEN NaN ELSE [nan |-> FALSE, num |-> a.num, den |-> b.num]

\* std::abs
Abs(a) == IF a.nan THEN NaN ELSE Dbl(IF a.num < 0 THEN -a.num ELSE a.num)

\* a < b, a > b, a != b on two sums of masses
Less(a, b) == ~a.nan /\ ~b.nan /\ a.num < b.num

Greater(a, b) == ~a.nan /\ ~b.nan /\ a.num > b.num

NotEqual(a, b) == a.nan \/ b.nan \/ a.num # b.num

(* ------------------------- results of a call -------------------------- *)

MsgNonNegative == "Probabilities must be nonnegative"

MsgSum == "Probabilities must sum to 1"

MsgUnknown == "Event contains outcome not in sample space"

MsgZero == "Tried to calculate conditional probability P(A|B) with B s.t. P(B)=0"

\* throw std::invalid_argument(msg): the exception object the caller catches
Throw(msg) ==
    [kind |-> "throw", type |-> "std::invalid_argument", what |-> msg, v |-> Zero]

\* return x
Return(x) == [kind |-> "return", type |-> "", what |-> "", v |-> x]

NoResult == [kind |-> "none", type |-> "", what |-> "", v |-> Zero]

(* ------------------------------ inputs -------------------------------- *)

Outcomes == 1 .. NumOutcomes

Events == SUBSET Outcomes

\* The masses a caller may put in a mapping: a negative one, zero, one unit
\* (1e-9), 0.5, 1.0 and NaN.
Masses == {Dbl(-1), Dbl(0), Dbl(1), Dbl(HALF), Dbl(ONE), NaN}

Min(S) == CHOOSE x \in S : \A y \in S : x <= y

\* The positive masses of m over keys fit in budget units.
RECURSIVE Fits(_, _, _)
Fits(m, keys, budget) ==
    IF keys = {} THEN TRUE
    ELSE LET k == Min(keys)
             pos == IF ~m[k].nan /\ m[k].num > 0 THEN m[k].num ELSE 0
         IN  pos <= budget /\ Fits(m, keys \ {k}, budget - pos)

EmptyMap == [o \in {} |-> Zero]

Mappings ==
    {m \in UNION {[D -> Masses] : D \in SUBSET Outcomes} :
        Fits(m, DOMAIN m, ONE + MaxExcess)}

(* ------------------- class ProbabilitySpace<T> ------------------------ *)

VARIABLES
    pc,             \* the caller: "start", "rejected", "idle" or "returned"
    arg,            \* the mapping handed to the constructor
    space,          \* std::map<T, double> space
    events,         \* std::set<T> events
    ignoreUnknown,  \* bool ignoreUnknown
    call,           \* the member function last called, with its arguments
    result,         \* what that call returned or threw
    lastSet         \* the argument of the latest setIgnoreUnknown call

vars == <<pc, arg, space, events, ignoreUnknown, call, result, lastSet>>

NoCall == [op |-> "none", A |-> {}, B |-> {}]

\* getKeys: the domain of the mapping
getKeys(pSpace) == DOMAIN pSpace

\* std::includes(events, event)
Includes(evs, event) == event \subseteq evs

\* isSubset with the flag forgotten: the check is made in either mode
isSubset_always(evs, ign, event) ==
    IF ~Includes(evs, event) THEN Throw(MsgUnknown) ELSE Return(Zero)

\* isSubset: throws unless ignoreUnknown is set or event is within events
isSubset(evs, ign, event) ==
    IF ~ign /\ ~Includes(evs, event) THEN Throw(MsgUnknown) ELSE Return(Zero)

\* the loop of validProbabilitySpace over the entries in key order
RECURSIVE validLoop(_, _, _)
validLoop(mapping, keys, total) ==
    IF keys = {} THEN Return(total)
    ELSE LET k == Min(keys)
         IN  IF Less(mapping[k], Zero) THEN Throw(MsgNonNegative)
             ELSE validLoop(mapping, keys \ {k}, Add(total, mapping[k]))

validProbabilitySpace(mapping) ==
    LET r == validLoop(mapping, DOMAIN mapping, Zero)
    IN  IF r.kind = "throw" THEN r
        ELSE IF Greater(Abs(Sub(r.v, Dbl(ONE))), Dbl(EPSILON)) THEN Throw(MsgSum)
        ELSE Return(Zero)

\* calcLoop with "total = it->second" in place of "total += it->second"
RECURSIVE calcLoop_assign(_, _, _, _)
calcLoop_assign(sp, ign, event, total) ==
    IF event = {} THEN Return(total)
    ELSE LET outcome == Min(event)
             eventExists == outcome \in DOMAIN sp
         IN  IF ~ign /\ ~eventExists THEN Throw(MsgUnknown)
             ELSE IF eventExists
                  THEN calcLoop_assign(sp, ign, event \ {outcome}, sp[outcome])
                  ELSE calcLoop_assign(sp, ign, event \ {outcome}, total)

\* calcLoop with "else if (eventExists && !ignoreUnknown)": the permissive
\* mode skips every outcome
RECURSIVE calcLoop_skip(_, _, _, _)
calcLoop_skip(sp, ign, event, total) ==
    IF event = {} THEN Return(total)
    ELSE LET outcome == Min(event)
             eventExists == outcome \in DOMAIN sp
         IN  IF ~ign /\ ~eventExists THEN Throw(MsgUnknown)
             ELSE IF eventExists /\ ~ign
                  THEN calcLoop_skip(sp, ign, event \ {outcome}, Add(total, sp[outcome]))
                  ELSE calcLoop_skip(sp, ign, event \ {outcome}, total)

\* the loop of probabilityCalculator over the event in ascending order
RECURSIVE calcLoop(_, _, _, _)
calcLoop(sp, ign, event, total) ==
    IF event = {} THEN Return(total)
    ELSE LET outcome == Min(event)
             eventExists == outcome \in DOMAIN sp
         IN  IF ~ign /\ ~eventExists THEN Throw(MsgUnknown)
             ELSE IF eventExists
                  THEN calcLoop(sp, ign, event \ {outcome}, Add(total, sp[outcome]))
                  ELSE calcLoop(sp, ign, event \ {outcome}, total)

probabilityCalculator(sp, evs, ign, event) ==
    LET chk == isSubset(evs, ign, event)
    IN  IF chk.kind = "throw" THEN chk ELSE calcLoop(sp, ign, event, Zero)

complement(sp, evs, ign, event) ==
    LET p == probabilityCalculator(sp, evs, ign, event)
    IN  IF p.kind = "throw" THEN p ELSE Return(Sub(Dbl(ONE), p.v))

\* unionEvents with eventA merged with itself: eventB's outcomes are left out
unionEvents_onlyA(sp, evs, ign, eventA, eventB) ==
    LET chkA == isSubset(evs, ign, eventA)
        chkB == isSubset(evs, ign, eventB)
        unioned == eventA \cup eventA
    IN  IF chkA.kind = "throw" THEN chkA
        ELSE IF chkB.kind = "throw" THEN chkB
        ELSE probabilityCalculator(sp, evs, ign, unioned)

unionEvents(sp, evs, ign, eventA, eventB) ==
    LET chkA == isSubset(evs, ign, eventA)
        chkB == isSubset(evs, ign, eventB)
        unioned == eventA \cup eventB
    IN  IF chkA.kind = "throw" THEN chkA
        ELSE IF chkB.kind = "throw" THEN chkB
        ELSE probabilityCalculator(sp, evs, ign, unioned)

\* intersectionEvents without its two isSubset calls, leaving the check to
\* probabilityCalculator
intersectionEvents_unchecked(sp, evs, ign, eventA, eventB) ==
    LET intersected == eventA \cap eventB
    IN  probabilityCalculator(sp, evs, ign, intersected)

intersectionEvents(sp, evs, ign, eventA, eventB) ==
    LET chkA == isSubset(evs, ign, eventA)
        chkB == isSubset(evs, ign, eventB)
        intersected == eventA \cap eventB
    IN  IF chkA.kind = "throw" THEN chkA
        ELSE IF chkB.kind = "throw" THEN chkB
        ELSE probabilityCalculator(sp, evs, ign, intersected)

\* _conditionalProbability with "std::abs(probB) > EPSILON" for "probB != 0"
conditionalProbability_eps(sp, evs, ign, eventA, eventB) ==
    LET chkA == isSubset(evs, ign, eventA)
        chkB == isSubset(evs, ign, eventB)
        probB == probabilityCalculator(sp, evs, ign, eventB)
        prob_AnB == intersectionEvents(sp, evs, ign, eventA, eventB)
    IN  IF chkA.kind = "throw" THEN chkA
        ELSE IF chkB.kind = "throw" THEN chkB
        ELSE IF probB.kind = "throw" THEN probB
        ELSE IF probB.v.nan \/ Greater(Abs(probB.v), Dbl(EPSILON))
             THEN IF prob_AnB.kind = "throw" THEN prob_AnB
                  ELSE Return(Div(prob_AnB.v, probB.v))
             ELSE Throw(MsgZero)

\* _conditionalProbability throwing the message of isSubset for P(B) = 0
conditionalProbability_what(sp, evs, ign, eventA, eventB) ==
    LET chkA == isSubset(evs, ign, eventA)
        chkB == isSubset(evs, ign, eventB)
        probB == probabilityCalculator(sp, evs, ign, eventB)
        prob_AnB == intersectionEvents(sp, evs, ign, eventA, eventB)
    IN  IF chkA.kind = "throw" THEN chkA
        ELSE IF chkB.kind = "throw" THEN chkB
        ELSE IF probB.kind = "throw" THEN probB
        ELSE IF NotEqual(probB.v, Zero)
             THEN IF prob_AnB.kind = "throw" THEN prob_AnB
                  ELSE Return(Div(prob_AnB.v, probB.v))
             ELSE Throw(MsgUnknown)

conditionalProbability_(sp, evs, ign, eventA, eventB) ==
    LET chkA == isSubset(evs, ign, eventA)
        chkB == isSubset(evs, ign, eventB)
        probB == probabilityCalculator(sp, evs, ign, eventB)
        prob_AnB == intersectionEvents(sp, evs, ign, eventA, eventB)
    IN  IF chkA.kind = "throw" THEN chkA
        ELSE IF chkB.kind = "throw" THEN chkB
        ELSE IF probB.kind = "throw" THEN probB
        ELSE IF NotEqual(probB.v, Zero)
             THEN IF prob_AnB.kind = "throw" THEN prob_AnB
                  ELSE Return(Div(prob_AnB.v, probB.v))
             ELSE Throw(MsgZero)

(* ------------------------------ actions ------------------------------- *)

Init ==
    /\ pc = "start"
    /\ arg = EmptyMap
    /\ space = EmptyMap
    /\ events = {}
    /\ ignoreUnknown = FALSE
    /\ call = NoCall
    /\ result = NoResult
    /\ lastSet = FALSE

\* ProbabilitySpace(std::map<T, double> mapping)
ProbabilitySpace ==
    /\ pc = "start"
    /\ \E mapping \in Mappings :
        /\ arg' = mapping
        /\ call' = [op |-> "ProbabilitySpace", A |-> {}, B |-> {}]
        /\ result' = validProbabilitySpace(mapping)
        /\ IF result'.kind = "throw"
           THEN /\ pc' = "rejected"
                /\ UNCHANGED <<space, events>>
           ELSE /\ pc' = "idle"
                /\ events' = getKeys(mapping)
                /\ space' = mapping
    /\ UNCHANGED <<ignoreUnknown, lastSet>>

\* what a const member function leaves alone: every member, and the caller's
\* record of its own setIgnoreUnknown calls
members == <<arg, space, events, ignoreUnknown, lastSet>>

probabilityOfSet ==
    /\ pc = "idle"
    /\ \E event \in Events :
        /\ call' = [op |-> "probabilityOfSet", A |-> event, B |-> {}]
        /\ result' = probabilityCalculator(space, events, ignoreUnknown, event)
    /\ pc' = "returned"
    /\ UNCHANGED members

complementOfEvent ==
    /\ pc = "idle"
    /\ \E event \in Events :
        /\ call' = [op |-> "complementOfEvent", A |-> event, B |-> {}]
        /\ result' = complement(space, events, ignoreUnknown, event)
    /\ pc' = "returned"
    /\ UNCHANGED members

unionOfEvents ==
    /\ pc = "idle"
    /\ \E eventA \in Events, eventB \in Events :
        /\ call' = [op |-> "unionOfEvents", A |-> eventA, B |-> eventB]
        /\ result' = unionEvents(space, events, ignoreUnknown, eventA, eventB)
    /\ pc' = "returned"
    /\ UNCHANGED members

intersectionOfEvents ==
    /\ pc = "idle"
    /\ \E eventA \in Events, eventB \in Events :
        /\ call' = [op |-> "intersectionOfEvents", A |-> eventA, B |-> eventB]
        /\ result' = intersectionEvents(space, events, ignoreUnknown, eventA, eventB)
    /\ pc' = "returned"
    /\ UNCHANGED members

conditionalProbability ==
    /\ pc = "idle"
    /\ \E eventA \in Events, eventB \in Events :
        /\ call' = [op |-> "conditionalProbability", A |-> eventA, B |-> eventB]
        /\ result' = conditionalProbability_(space, events, ignoreUnknown, eventA, eventB)
    /\ pc' = "returned"
    /\ UNCHANGED members

\* the flag travels in the num field of the returned value: 1 for true
getCurrentMode ==
    /\ pc = "idle"
    /\ call' = [op |-> "getCurrentMode", A |-> {}, B |-> {}]
    /\ result' = Return([nan |-> FALSE, num |-> IF ignoreUnknown THEN 1 ELSE 0, den |-> 1])
    /\ pc' = "returned"
    /\ UNCHANGED members

\* setIgnoreUnknown with "ignoreUnknown |= mode": the flag is never cleared
setIgnoreUnknown_sticky ==
    /\ pc = "idle"
    /\ \E mode \in BOOLEAN :
        /\ ignoreUnknown' = (ignoreUnknown \/ mode)
        /\ lastSet' = mode
    /\ UNCHANGED <<pc, arg, space, events, call, result>>

setIgnoreUnknown ==
    /\ pc = "idle"
    /\ \E mode \in BOOLEAN :
        /\ ignoreUnknown' = mode
        /\ lastSet' = mode
    /\ UNCHANGED <<pc, arg, space, events, call, result>>

\* the caller has looked at the value or the exception and goes on
Report ==
    /\ pc = "returned"
    /\ pc' = "idle"
    /\ call' = NoCall
    /\ result' = NoResult
    /\ UNCHANGED members

Next ==
    \/ ProbabilitySpace
    \/ probabilityOfSet
    \/ complementOfEvent
    \/ unionOfEvents
    \/ intersectionOfEvents
    \/ conditionalProbability
    \/ getCurrentMode
    \/ setIgnoreUnknown
    \/ Report

Spec == Init /\ [][Next]_vars

(* ------------------- notions the properties use ----------------------- *)

Queries ==
    {"probabilityOfSet", "complementOfEvent", "unionOfEvents",
     "intersectionOfEvents", "conditionalProbability"}

\* a query has just returned or thrown
Returned == pc = "returned" /\ call.op \in Queries

\* the query c made on a space with members sp, evs, ign
QueryOutcome(sp, evs, ign, c) ==
    CASE c.op = "probabilityOfSet" -> probabilityCalculator(sp, evs, ign, c.A)
      [] c.op = "complementOfEvent" -> complement(sp, evs, ign, c.A)
      [] c.op = "unionOfEvents" -> unionEvents(sp, evs, ign, c.A, c.B)
      [] c.op = "intersectionOfEvents" -> intersectionEvents(sp, evs, ign, c.A, c.B)
      [] c.op = "conditionalProbability" -> conditionalProbability_(sp, evs, ign, c.A, c.B)

UnknownOutcome(r) == r.kind = "throw" /\ r.what = MsgUnknown

ConditionOnZero(r) == r.kind = "throw" /\ r.what = MsgZero

InvalidDistribution(r) == r.kind = "throw" /\ r.what \in {MsgNonNegative, MsgSum}

\* the mass of E: the sum of m over the outcomes of E that m knows
RECURSIVE MassOf(_, _)
MassOf(m, E) ==
    LET known == E \cap DOMAIN m
    IN  IF known = {} THEN Zero
        ELSE LET o == CHOOSE x \in known : TRUE
             IN  Add(m[o], MassOf(m, known \ {o}))

\* a mass function: every mass a number >= 0, the masses summing to 1 within EPSILON
ValidMass(m) ==
    /\ \A o \in DOMAIN m : ~m[o].nan /\ m[o].num >= 0
    /\ MassOf(m, DOMAIN m).num - ONE <= EPSILON
    /\ ONE - MassOf(m, DOMAIN m).num <= EPSILON

\* a number of [0, 1]
InUnitInterval(d) == ~d.nan /\ d.den > 0 /\ 0 <= d.num /\ d.num <= d.den

\* |a - b| <= EPSILON on two sums of masses
WithinEpsilon(a, b) ==
    ~a.nan /\ ~b.nan /\ a.num - b.num <= EPSILON /\ b.num - a.num <= EPSILON

(* ------------------------------- C1 ----------------------------------- *)

\* C1: in strict mode a query throws the unknown-outcome exception, and so
\* returns no number, whenever one of its event arguments is not within the
\* sample space, each argument being checked on its own.
C1_StrictRejectsUnknown ==
    (Returned /\ ~ignoreUnknown /\ ~(call.A \subseteq events /\ call.B \subseteq events))
        => result = Throw(MsgUnknown)

\* an intersection whose A n B lies inside the sample space, failing all the same
C1_Witness ==
    /\ Returned /\ ~ignoreUnknown
    /\ call.op = "intersectionOfEvents"
    /\ ~(call.A \subseteq events)
    /\ call.A \cap call.B # {}
    /\ (call.A \cap call.B) \subseteq events
    /\ UnknownOutcome(result)

(* ------------------------------- C2 ----------------------------------- *)

\* C2: construction succeeds exactly when every mass is >= 0 and the masses
\* sum to 1 within EPSILON; otherwise it throws the invalid-distribution
\* exception and no space is stored.
C2_ConstructionExact ==
    pc # "start" =>
        /\ (pc # "rejected") <=> ValidMass(arg)
        /\ pc = "rejected" =>
              (InvalidDistribution(result) /\ space = EmptyMap /\ events = {})

(* ------------------------------- C3 ----------------------------------- *)

\* C3: conditional(A, B) throws the zero-condition exception exactly when the
\* subset checks pass and P(B) is exactly 0, which is when every outcome of B
\* that the space knows has mass 0; when the checks pass and P(B) is not 0 it
\* returns P(A n B) / P(B); when a check fails it throws the unknown-outcome
\* exception, whatever P(B) is.
C3_Conditional ==
    (Returned /\ call.op = "conditionalProbability") =>
        LET checksPass ==
                ignoreUnknown \/ (call.A \subseteq events /\ call.B \subseteq events)
            massB == MassOf(space, call.B)
        IN  /\ ConditionOnZero(result) <=> (checksPass /\ massB = Zero)
            /\ massB = Zero <=> \A o \in call.B \cap events : space[o] = Zero
            /\ (checksPass /\ massB # Zero) =>
                  result = Return(Div(MassOf(space, call.A \cap call.B), massB))
            /\ ~checksPass => result = Throw(MsgUnknown)

\* conditioning on a non-empty event of known outcomes that all have mass 0
C3_Witness ==
    /\ Returned /\ call.op = "conditionalProbability"
    /\ call.B # {} /\ call.B \subseteq events
    /\ ConditionOnZero(result)

(* ------------------------------- C4 ----------------------------------- *)

\* why the last call failed, read off the call and the state it was made in
FailureCause ==
    IF call.op = "ProbabilitySpace" THEN "InvalidDistribution"
    ELSE IF ~ignoreUnknown /\ ~(call.A \subseteq events /\ call.B \subseteq events)
         THEN "UnknownOutcome"
         ELSE "ConditionOnZero"

\* the kind a caller reads off the exception it caught
KindOf(r) ==
    CASE r.what \in {MsgNonNegative, MsgSum} -> "InvalidDistribution"
      [] r.what = MsgUnknown -> "UnknownOutcome"
      [] r.what = MsgZero -> "ConditionOnZero"
      [] OTHER -> "none"

\* C4: the exception a failing call throws tells its kind: its what() text
\* determines whether construction failed, an outcome was unknown or the
\* condition had mass 0, and only a conditional query throws the last.
C4_KindsDistinct ==
    result.kind = "throw" =>
        /\ KindOf(result) = FailureCause
        /\ FailureCause = "ConditionOnZero" => call.op = "conditionalProbability"

\* a strict-mode conditional query failing on a zero condition
C4_Witness ==
    /\ Returned /\ ~ignoreUnknown
    /\ result.kind = "throw"
    /\ KindOf(result) = "ConditionOnZero"

(* ------------------------------- C5 ----------------------------------- *)

\* C5: every query that returns, on any space that was constructed, returns
\* a number of [0, 1].
C5_ResultInUnitInterval ==
    (Returned /\ result.kind = "return") => InUnitInterval(result.v)

(* ------------------------------- C6 ----------------------------------- *)

C7_ModeIndependent ==
    (Returned /\ call.A \subseteq events /\ call.B \subseteq events) =>
        result = QueryOutcome(space, events, ~ignoreUnknown, call)

\* a permissive-mode conditional query on known outcomes with a positive value
C7_Witness ==
    /\ Returned /\ ignoreUnknown
    /\ call.op = "conditionalProbability"
    /\ call.A \subseteq events /\ call.B \subseteq events
    /\ result.kind = "return" /\ ~result.v.nan /\ result.v.num > 0

(* ------------------------------- C8 ----------------------------------- *)

\* C8: in permissive mode no query throws the unknown-outcome exception, and
\* adding outcomes from outside the sample space to any of its arguments
\* leaves its outcome as it is.
C8_PermissiveInvariance ==
    (Returned /\ ignoreUnknown) =>
        /\ ~UnknownOutcome(result)
        /\ \A F1 \in SUBSET (Outcomes \ events), F2 \in SUBSET (Outcomes \ events) :
              QueryOutcome(space, events, ignoreUnknown,
                           [op |-> call.op, A |-> call.A \cup F1, B |-> call.B \cup F2])
                  = result

\* a permissive-mode union of a mixed event, returning the mass of its known part
C8_Witness ==
    /\ Returned /\ ignoreUnknown
    /\ call.op = "unionOfEvents"
    /\ ~(call.A \subseteq events) /\ call.A \cap events # {}
    /\ result.kind = "return" /\ ~result.v.nan /\ result.v.num > 0

(* ------------------------------- C9 ----------------------------------- *)

C10_Monotone ==
    (/\ Returned /\ call.op = "probabilityOfSet"
     /\ ValidMass(space)
     /\ result.kind = "return") =>
        \A A \in SUBSET call.A :
            LET pA == probabilityCalculator(space, events, ignoreUnknown, A)
            IN  /\ pA.kind = "return"
                /\ ~pA.v.nan /\ ~result.v.nan
                /\ pA.v.num <= result.v.num

\* an event with a part of strictly smaller probability
C10_Witness ==
    /\ Returned /\ call.op = "probabilityOfSet"
    /\ ValidMass(space)
    /\ result.kind = "return"
    /\ \E A \in SUBSET call.A :
          /\ A # {} /\ A # call.A
          /\ Less(probabilityCalculator(space, events, ignoreUnknown, A).v, result.v)

====
